---- MODULE Spec2Model ----
(***************************************************************************)
(* kindr rotations: RotationMatrix<PrimType_> (RotationMatrix.hpp) and the *)
(* rm Quaternion / UnitQuaternion classes (QuaternionEigen.hpp).           *)
(*                                                                         *)
(* PrimType_ is modelled as a binary floating-point type with a 24-bit     *)
(* significand (the width of C++ float), round to nearest, and an          *)
(* unbounded exponent.  A finite non-zero scalar is <<m, e>>, standing     *)
(* for m * 2^e with MantLo <= |m| < MantHi; zero is <<0, 0>>; NaN and the  *)
(* two infinities are tagged with the exponent SpecialExp.  Zero carries   *)
(* no sign.                                                                *)
(***************************************************************************)
EXTENDS Integers, Sequences, FiniteSets, TLC

MantLo == 2^23
MantHi == 2^24
Limb == 2^12
SpecialExp == 2^20

Zero == <<0, 0>>
NaN == <<0, SpecialExp>>
PInf == <<1, SpecialExp>>
NInf == <<-1, SpecialExp>>

IsNaN(a) == a = NaN
IsInf(a) == a = PInf \/ a = NInf
IsFinite(a) == a[2] # SpecialExp
IsZero(a) == a = Zero
Sgn(a) == IF a[1] > 0 THEN 1 ELSE IF a[1] < 0 THEN -1 ELSE 0
Mag(n) == IF n < 0 THEN -n ELSE n
InfOf(s) == IF s < 0 THEN NInf ELSE PInf

\* n / d for n >= 0 and d > 0, rounded to nearest, ties to even
RDiv(n, d) ==
  LET q == n \div d
      r == n % d
  IN IF 2 * r > d \/ (2 * r = d /\ q % 2 = 1) THEN q + 1 ELSE q

RECURSIVE ShiftOf(_)
ShiftOf(m) == IF m < MantHi THEN 0 ELSE 1 + ShiftOf(m \div 2)

\* the scalar nearest to s * m * 2^e, for a sign s and a magnitude 0 <= m < 2^31
RECURSIVE Norm(_, _, _)
Norm(s, m, e) ==
  IF m = 0 THEN Zero
  ELSE IF m < MantLo THEN Norm(s, 2 * m, e - 1)
  ELSE IF m < MantHi THEN <<s * m, e>>
  ELSE LET k == ShiftOf(m)
           q == RDiv(m, 2^k)
       IN IF q = MantHi THEN <<s * MantLo, e + k + 1>> ELSE <<s * q, e + k>>

FromInt(n) == Norm(IF n < 0 THEN -1 ELSE 1, Mag(n), 0)

FNeg(a) == IF IsNaN(a) THEN NaN ELSE <<-a[1], a[2]>>
FAbs(a) == IF IsNaN(a) THEN NaN ELSE <<Mag(a[1]), a[2]>>

\* a * b: the 48-bit product of the significands, formed from 12-bit limbs,
\* then rounded once
FMul(a, b) ==
  IF IsNaN(a) \/ IsNaN(b) THEN NaN
  ELSE IF IsInf(a) \/ IsInf(b)
    THEN (IF IsZero(a) \/ IsZero(b) THEN NaN ELSE InfOf(Sgn(a) * Sgn(b)))
  ELSE IF IsZero(a) \/ IsZero(b) THEN Zero
  ELSE
    LET A == Mag(a[1])
        B == Mag(b[1])
        a1 == A \div Limb
        a0 == A % Limb
        b1 == B \div Limb
        b0 == B % Limb
        mid == a1 * b0 + a0 * b1
        r == (mid % Limb) * Limb + a0 * b0
        H == a1 * b1 + (mid \div Limb) + (r \div MantHi)
        L == r % MantHi
        s == Sgn(a) * Sgn(b)
        e == a[2] + b[2]
        up(q, rem, half) == IF rem > half \/ (rem = half /\ q % 2 = 1) THEN q + 1 ELSE q
        q == IF H >= MantLo THEN up(H, L, MantLo)
             ELSE up(2 * H + (L \div MantLo), L % MantLo, MantLo \div 2)
        ex == IF H >= MantLo THEN e + 24 ELSE e + 23
    IN IF q = MantHi THEN <<s * MantLo, ex + 1>> ELSE <<s * q, ex>>

\* a + b: the operand of smaller exponent is aligned with five guard bits
\* and a sticky bit, and the sum is rounded once
FAdd(a, b) ==
  IF IsNaN(a) \/ IsNaN(b) THEN NaN
  ELSE IF IsInf(a) THEN (IF IsInf(b) /\ a # b THEN NaN ELSE a)
  ELSE IF IsInf(b) THEN b
  ELSE IF IsZero(a) THEN b
  ELSE IF IsZero(b) THEN a
  ELSE
    LET hi == IF a[2] >= b[2] THEN a ELSE b
        lo == IF a[2] >= b[2] THEN b ELSE a
        d == hi[2] - lo[2]
    IN IF d > 27 THEN hi
       ELSE
         LET g == IF d < 5 THEN d ELSE 5
             k == 2^(d - g)
             t == Mag(lo[1]) \div k
             sticky == IF Mag(lo[1]) % k # 0 THEN 1 ELSE 0
             sum == 2 * hi[1] * 2^g + Sgn(lo) * (2 * t + sticky)
         IN Norm(IF sum < 0 THEN -1 ELSE 1, Mag(sum), hi[2] - g - 1)

FSub(a, b) == FAdd(a, FNeg(b))

\* the next seven quotient bits of a long division: <<quotient, remainder>>
DivStep(qr, B) ==
  <<qr[1] * 128 + (qr[2] * 128) \div B, (qr[2] * 128) % B>>

\* a / b by long division to 29 quotient bits and a sticky bit, rounded once
FDiv(a, b) ==
  IF IsNaN(a) \/ IsNaN(b) THEN NaN
  ELSE IF IsInf(a) THEN (IF IsInf(b) THEN NaN
                         ELSE InfOf(Sgn(a) * (IF Sgn(b) < 0 THEN -1 ELSE 1)))
  ELSE IF IsInf(b) THEN Zero
  ELSE IF IsZero(b) THEN (IF IsZero(a) THEN NaN ELSE InfOf(Sgn(a)))
  ELSE IF IsZero(a) THEN Zero
  ELSE
    LET A == Mag(a[1])
        B == Mag(b[1])
        s0 == <<A \div B, A % B>>
        s4 == DivStep(DivStep(DivStep(DivStep(s0, B), B), B), B)
        sticky == IF s4[2] # 0 THEN 1 ELSE 0
    IN Norm(Sgn(a) * Sgn(b), 2 * s4[1] + sticky, a[2] - b[2] - 29)

\* comparisons as the hardware makes them: any comparison with NaN is false
FEq(a, b) == ~IsNaN(a) /\ ~IsNaN(b) /\ a = b
FLt(a, b) == ~IsNaN(a) /\ ~IsNaN(b) /\ a # b /\ Sgn(FSub(a, b)) < 0
FLe(a, b) == FEq(a, b) \/ FLt(a, b)
FGt(a, b) == FLt(b, a)

One == FromInt(1)
Two == FromInt(2)
Half == FDiv(One, Two)
\* a decimal literal n / d
Dec(n, d) == FDiv(FromInt(n), FromInt(d))

(***************************************************************************)
(* The scalar library functions the code calls (sqrt inside Eigen's norm,  *)
(* pow, sin, cos).  sqrt is correctly rounded.  pow, sin and cos are       *)
(* computed in the scalar arithmetic above, to within about one unit in    *)
(* the last place of 1, and are exact where the library is exact           *)
(* (pow(1, 1/3) = 1, sin 0 = 0, cos 0 = 1).                                *)
(***************************************************************************)
Three == FromInt(3)

\* 2^k as a scalar
Pow2(k) == <<MantLo, k - 23>>

\* one binary digit of the square root of mp * 4^13 per step, most
\* significant first: <<root, remainder>>
RECURSIVE SqrtDigits(_, _, _, _)
SqrtDigits(mp, i, root, rem) ==
  IF i < 0 THEN <<root, rem>>
  ELSE LET pair == IF i >= 13 THEN (mp \div 4^(i - 13)) % 4 ELSE 0
           r == 4 * rem + pair
           trial == 4 * root + 1
       IN IF r >= trial THEN SqrtDigits(mp, i - 1, 2 * root + 1, r - trial)
          ELSE SqrtDigits(mp, i - 1, 2 * root, r)

\* std::sqrt, correctly rounded
FSqrt(x) ==
  IF IsNaN(x) \/ Sgn(x) < 0 THEN NaN
  ELSE IF IsZero(x) \/ IsInf(x) THEN x
  ELSE LET odd == x[2] % 2 = 1
           mp == IF odd THEN 2 * x[1] ELSE x[1]
           e == IF odd THEN x[2] - 1 ELSE x[2]
           d == SqrtDigits(mp, 25, 0, 0)
       IN Norm(1, 2 * d[1] + (IF d[2] # 0 THEN 1 ELSE 0), e \div 2 - 14)

RECURSIVE CbrtIter(_, _, _)
CbrtIter(x, r, n) ==
  IF n = 0 THEN r
  ELSE CbrtIter(x, FDiv(FAdd(FMul(Two, r), FDiv(x, FMul(r, r))), Three), n - 1)

\* std::pow(x, 1.0/3.0): NaN for a negative base
PowThird(x) ==
  IF IsNaN(x) \/ Sgn(x) < 0 THEN NaN
  ELSE IF IsZero(x) \/ IsInf(x) THEN x
  ELSE CbrtIter(x, Pow2((x[2] + 24) \div 3), 8)

\* sum of the Taylor series from the term of index k on: term is the k-th
\* term, x2 the square of the argument, and k steps by two
RECURSIVE Taylor(_, _, _, _)
Taylor(term, x2, k, last) ==
  IF k > last \/ IsZero(term) THEN term
  ELSE FAdd(term,
            Taylor(FNeg(FDiv(FMul(term, x2), FromInt((k + 1) * (k + 2)))),
                   x2, k + 2, last))

\* std::sin and std::cos, for arguments of magnitude up to about pi
FSin(x) == IF ~IsFinite(x) THEN NaN ELSE Taylor(x, FMul(x, x), 1, 23)
FCos(x) == IF ~IsFinite(x) THEN NaN ELSE Taylor(One, FMul(x, x), 0, 22)

(***************************************************************************)
(* 3x3 matrices: the nine coefficients in row-major order, as the comma    *)
(* initializer `*this << r11,r12,...,r33` stores them.                     *)
(***************************************************************************)
Mat(r11, r12, r13, r21, r22, r23, r31, r32, r33) ==
  <<r11, r12, r13, r21, r22, r23, r31, r32, r33>>

\* coefficient (r, c), rows and columns counted from 0 as in the code
At(M, r, c) == M[3 * r + c + 1]

\* Base::Identity()
IdentityMatrix == Mat(One, Zero, Zero, Zero, One, Zero, Zero, Zero, One)

\* Eigen transpose()
MatTranspose(M) == [i \in 1..9 |-> At(M, (i - 1) % 3, (i - 1) \div 3)]

\* Eigen's coefficient-wise 3x3 product: each entry the sum, in order, of
\* the three products of a row of A with a column of B
MatProduct(A, B) ==
  [i \in 1..9 |->
     LET r == (i - 1) \div 3
         c == (i - 1) % 3
     IN FAdd(FAdd(FMul(At(A, r, 0), At(B, 0, c)),
                  FMul(At(A, r, 1), At(B, 1, c))),
             FMul(At(A, r, 2), At(B, 2, c)))]

\* Eigen's 3x3 determinant: expansion along the first row
Det3Helper(M, a, b, c) ==
  FMul(At(M, 0, a),
       FSub(FMul(At(M, 1, b), At(M, 2, c)), FMul(At(M, 1, c), At(M, 2, b))))

\* RotationMatrix::determinant()
Determinant(M) ==
  FAdd(FSub(Det3Helper(M, 0, 1, 2), Det3Helper(M, 1, 0, 2)), Det3Helper(M, 2, 0, 1))

\* scalar * matrix
MatScale(f, M) == [i \in 1..9 |-> FMul(f, M[i])]

\* the assertion macros' comparison: |a - b| <= tolerance
ScalarNear(a, b, tol) == FLe(FAbs(FSub(a, b)), tol)
MatrixNear(A, B, tol) == \A i \in 1..9 : ScalarNear(A[i], B[i], tol)

\* static_cast<Scalar>(1e-4), the tolerance of both matrix assertions
MatrixTolerance == Dec(1, 10000)

\* the two assertions of the checked constructors, on the matrix `M`
IsOrthogonal(M) == MatrixNear(MatProduct(M, MatTranspose(M)), IdentityMatrix, MatrixTolerance)
HasUnitDeterminant(M) == ScalarNear(Determinant(M), One, MatrixTolerance)
PassesMatrixAssertions(M) == IsOrthogonal(M) /\ HasUnitDeterminant(M)

\* common::internal::NumTraits<Scalar>::dummy_precision() for float
DummyPrecision == Dec(1, 100000)

\* Eigen norm() of a 3-vector
VecNorm(v) ==
  FSqrt(FAdd(FAdd(FMul(v[1], v[1]), FMul(v[2], v[2])), FMul(v[3], v[3])))

\* the `v < dummy_precision()` test of the rotation vector conversion
UsesLinearizedBranch(rv) == FLt(VecNorm(rv), DummyPrecision)

\* the near-zero branch with the signs of the skew part flipped (the
\* active/passive slip): not what the code does
LinearizedMatrixPassive(rv) ==
  Mat(One, rv[3], FNeg(rv[2]),
      FNeg(rv[3]), One, rv[1],
      rv[2], FNeg(rv[1]), One)

\* the near-zero branch: identity plus the skew matrix of the vector
LinearizedMatrix(rv) ==
  Mat(One, FNeg(rv[3]), rv[2],
      rv[3], One, FNeg(rv[1]),
      FNeg(rv[2]), rv[1], One)

\* the else branch, in the code's own steps.  The nine entries from the
\* temporaries t2, t5 .. t17 (t4vv2 is the product t4*v*v2 the code writes
\* inline):
ClosedFormEntries(t2, t5, t6, t7, t8, t9, t10, t11, t14, t15, t16, t17, t4vv2) ==
  Mat(FMul(t5, FSub(t14, FMul(t8, FAdd(FAdd(FNeg(t9), t10), t11)))),
      FMul(FMul(FMul(t2, t5), FSub(t6, t7)), FNeg(Two)),
      FMul(FMul(FMul(t2, t5), FAdd(t15, t4vv2)), Two),
      FMul(FMul(FMul(t2, t5), FAdd(t6, t7)), Two),
      FMul(t5, FSub(t14, FMul(t8, FAdd(FSub(t9, t10), t11)))),
      FMul(FMul(FMul(t2, t5), FSub(t16, t17)), FNeg(Two)),
      FMul(FMul(FMul(t2, t5), FSub(t15, t4vv2)), Two),
      FMul(FMul(FMul(t2, t5), FAdd(t16, t17)), Two),
      FMul(t5, FSub(t14, FMul(t8, FSub(FAdd(t9, t10), t11)))))

\* the temporaries t5 .. t17 from the vector, its norm v, t2 = sin(t3) and
\* t4 = cos(t3); t5 = 1.0/(v*v) is the one division of the branch
ClosedFormFromTrig(v1, v2, v3, v, t2, t4) ==
  ClosedFormEntries(t2,
                    FDiv(One, FMul(v, v)),
                    FMul(FMul(t4, v), v3),
                    FMul(FMul(t2, v1), v2),
                    FMul(t2, t2),
                    FMul(v1, v1),
                    FMul(v2, v2),
                    FMul(v3, v3),
                    FMul(FMul(v, v), FMul(t4, t4)),
                    FMul(FMul(t2, v1), v3),
                    FMul(FMul(t4, v), v1),
                    FMul(FMul(t2, v2), v3),
                    FMul(FMul(t4, v), v2))

\* t3 = v*(1.0/2.0), t2 = sin(t3), t4 = cos(t3)
ClosedFormFromNorm(v1, v2, v3, v) ==
  ClosedFormFromTrig(v1, v2, v3, v, FSin(FMul(v, Half)), FCos(FMul(v, Half)))

ClosedFormMatrix(rv) == ClosedFormFromNorm(rv[1], rv[2], rv[3], VecNorm(rv))

\* ConversionTraits<RotationMatrix, RotationVector>::convert
ConvertRotationVector(rv) ==
  IF UsesLinearizedBranch(rv) THEN LinearizedMatrix(rv) ELSE ClosedFormMatrix(rv)

\* the entries of the conversion laid out transposed (the passive
\* convention): not what the code does
EulerZyxEntriesTransposed(t2, t3, t4, t5, t6, t7) ==
  Mat(FMul(t2, t4),
      FAdd(FMul(t3, t6), FMul(FMul(t4, t5), t7)),
      FSub(FMul(t3, t7), FMul(FMul(t4, t5), t6)),
      FMul(FNeg(t2), t3),
      FSub(FMul(t4, t6), FMul(FMul(t3, t5), t7)),
      FAdd(FMul(t4, t7), FMul(FMul(t3, t5), t6)),
      t5,
      FMul(FNeg(t2), t7),
      FMul(t2, t6))

\* the nine entries of the EulerAnglesZyx conversion from its temporaries
\* t2 = cos(theta), t3 = sin(psi), t4 = cos(psi), t5 = sin(theta),
\* t6 = cos(phi), t7 = sin(phi)
EulerZyxEntries(t2, t3, t4, t5, t6, t7) ==
  Mat(FMul(t2, t4),
      FMul(FNeg(t2), t3),
      t5,
      FAdd(FMul(t3, t6), FMul(FMul(t4, t5), t7)),
      FSub(FMul(t4, t6), FMul(FMul(t3, t5), t7)),
      FMul(FNeg(t2), t7),
      FSub(FMul(t3, t7), FMul(FMul(t4, t5), t6)),
      FAdd(FMul(t4, t7), FMul(FMul(t3, t5), t6)),
      FMul(t2, t6))

\* the matrix ConversionTraits<RotationMatrix, EulerAnglesZyx>::convert
\* builds, before it hands it to the checked constructor; zyx is
\* <<x(), y(), z()>> = <<phi, theta, psi>>
EulerZyxMatrix(zyx) ==
  EulerZyxEntries(FCos(zyx[2]), FSin(zyx[3]), FCos(zyx[3]), FSin(zyx[2]),
                  FCos(zyx[1]), FSin(zyx[1]))

\* ConversionTraits<RotationMatrix, RotationMatrix>::convert: a cast to the
\* same scalar type
ConvertRotationMatrix(M) == M

\* MultiplicationTraits<RotationMatrix, RotationMatrix>::mult
\* a coefficient-wise product in place of the matrix product: not what the
\* code does
MultCwise(lhs, rhs) == [i \in 1..9 |-> FMul(lhs[i], rhs[i])]

\* the product with its operands exchanged: not what the code does
MultSwapped(lhs, rhs) == MatProduct(rhs, lhs)

\* MultiplicationTraits::mult: lhs.toImplementation() * rhs.toImplementation()
Mult(lhs, rhs) == MatProduct(lhs, rhs)

\* an inverted() that forgets the transpose: not what the code does
InvertedAsCopy(M) == M

\* RotationMatrix::inverted()
Inverted(M) == MatTranspose(M)

\* a transposed() with the sign of every coefficient flipped: not what the
\* code does
TransposedNegated(M) == [i \in 1..9 |-> FNeg(MatTranspose(M)[i])]

\* RotationMatrix::transposed()
Transposed(M) == MatTranspose(M)

\* a getUnique() that returns a default-constructed matrix: not what the
\* code does
GetUniqueAsDefault(M) == IdentityMatrix

\* RotationMatrix::getUnique()
GetUniqueValue(M) == M

\* FixingTraits<RotationMatrix>::fix: every coefficient times
\* 1 / pow(determinant, 1/3)
\* the factor without the cube root: not what the code does
FixFactorNoRoot(M) == FDiv(One, Determinant(M))

FixFactor(M) == FDiv(One, PowThird(Determinant(M)))

Fixed(M) == MatScale(FixFactor(M), M)

(***************************************************************************)
(* Quaternions: the four coefficients <<w, x, y, z>>.                      *)
(***************************************************************************)
Quat(w, x, y, z) == <<w, x, y, z>>

\* Implementation::Identity()
IdentityQuaternion == Quat(One, Zero, Zero, Zero)

\* Quaternion(): all four coefficients zero
ZeroQuaternion == Quat(Zero, Zero, Zero, Zero)

\* Eigen norm(): the square root of the sum of the squared coefficients,
\* which Eigen stores in the order x, y, z, w and sums by halves
QuatNorm(q) ==
  FSqrt(FAdd(FAdd(FMul(q[2], q[2]), FMul(q[3], q[3])),
             FAdd(FMul(q[4], q[4]), FMul(q[1], q[1]))))

\* Eigen conjugate()
QuatConjugate(q) == Quat(q[1], FNeg(q[2]), FNeg(q[3]), FNeg(q[4]))

\* Eigen normalized(): every coefficient divided by the norm
QuatNormalized(q) == [i \in 1..4 |-> FDiv(q[i], QuatNorm(q))]

\* Eigen's quaternion product a * b
QuatProduct(a, b) ==
  Quat(FSub(FSub(FSub(FMul(a[1], b[1]), FMul(a[2], b[2])), FMul(a[3], b[3])),
            FMul(a[4], b[4])),
       FSub(FAdd(FAdd(FMul(a[1], b[2]), FMul(a[2], b[1])), FMul(a[3], b[4])),
            FMul(a[4], b[3])),
       FSub(FAdd(FAdd(FMul(a[1], b[3]), FMul(a[3], b[1])), FMul(a[4], b[2])),
            FMul(a[2], b[4])),
       FSub(FAdd(FAdd(FMul(a[1], b[4]), FMul(a[4], b[1])), FMul(a[2], b[3])),
            FMul(a[3], b[2])))

\* MultiplicationTraits<Quaternion, Quaternion>::mult
QuatMult(a, b) == QuatProduct(a, b)

\* a comparison that takes q and -q, the same rotation, for equal: not what
\* the code does
IsEqualUpToSign(a, b) ==
  \/ FEq(a[1], b[1]) /\ FEq(a[2], b[2]) /\ FEq(a[3], b[3]) /\ FEq(a[4], b[4])
  \/ FEq(a[1], FNeg(b[1])) /\ FEq(a[2], FNeg(b[2])) /\ FEq(a[3], FNeg(b[3]))
       /\ FEq(a[4], FNeg(b[4]))

\* ComparisonTraits<Quaternion>::isequal
IsEqual(a, b) == FEq(a[1], b[1]) /\ FEq(a[2], b[2]) /\ FEq(a[3], b[3]) /\ FEq(a[4], b[4])

\* the 1e-6 of ASSERT_SCALAR_NEAR(norm(), 1, 1e-6, ...)
QuaternionTolerance == Dec(1, 1000000)

\* ASSERT_SCALAR_NEAR(norm(), 1, 1e-6, "Input quaternion has not unit length.")
PassesUnitAssertion(q) == ScalarNear(QuatNorm(q), One, QuaternionTolerance)

(***************************************************************************)
(* The values a client passes in.                                          *)
(***************************************************************************)
\* quarter turn about z: an exact rotation
RotZ90 == Mat(Zero, FNeg(One), Zero, One, Zero, Zero, Zero, Zero, One)
\* rotation about x with cosine 0.6 and sine 0.8, rounded to the scalar type
RotX345 ==
  Mat(One, Zero, Zero, Zero, Dec(6, 10), FNeg(Dec(8, 10)), Zero, Dec(8, 10), Dec(6, 10))
\* identity plus 6e-5 off the diagonal: inside both tolerances, not orthogonal
NearShear == Mat(One, Dec(6, 100000), Zero, Zero, One, Zero, Zero, Zero, One)
\* 1.00001 times the identity: inside both tolerances, determinant not 1
NearScaled ==
  Mat(Dec(100001, 100000), Zero, Zero, Zero, Dec(100001, 100000), Zero,
      Zero, Zero, Dec(100001, 100000))
\* orthogonal with determinant -1
Reflection == Mat(One, Zero, Zero, Zero, One, Zero, Zero, Zero, FNeg(One))
\* a rotation scaled by two
ScaledRotation == MatScale(Two, RotZ90)
\* determinant 1, not orthogonal
Shear == Mat(One, One, Zero, Zero, One, Zero, Zero, Zero, One)

ScalarInputs == {RotZ90, RotX345, NearShear, NearScaled, Reflection, ScaledRotation, Shear}
EigenInputs == {RotX345, Reflection, ScaledRotation}
MultOperands == {RotZ90, RotX345, NearShear}

RotationVectorInputs ==
  { <<Zero, Zero, Zero>>,
    <<Dec(1, 1000000), Zero, FNeg(Dec(2, 1000000))>>,
    <<DummyPrecision, Zero, Zero>>,
    <<Zero, Dec(11, 1000000), Zero>>,
    <<Zero, Zero, Dec(15707963, 10000000)>>,
    <<Dec(3, 10), FNeg(Dec(4, 10)), Dec(12, 10)>> }

\* EulerAnglesZyx values as <<x(), y(), z()>>
EulerZyxInputs ==
  { <<Zero, Zero, Zero>>,
    <<Dec(3, 10), FNeg(Dec(4, 10)), Dec(12, 10)>>,
    <<Dec(15707963, 10000000), Zero, Zero>>,
    <<FNeg(Two), Dec(7, 10), FNeg(Half)>> }

QuaternionInputs ==
  { Quat(Dec(6, 10), Dec(8, 10), Zero, Zero),
    Quat(Half, Half, Half, Half),
    Quat(One, Dec(1, 1000), Zero, Zero),
    Quat(Two, Zero, Zero, Zero),
    ZeroQuaternion }
WriteValues == {Zero, Half}

\* how many operations a client performs on the object
MaxOps == 2

(***************************************************************************)
(* State.  A client holds one object, a RotationMatrix R or a              *)
(* UnitQuaternion uq, and the value the last const member function or      *)
(* conversion returned (Rret, uqret).                                      *)
(***************************************************************************)
VARIABLES
  obj,     \* which class the client exercises
  debug,   \* the build: TRUE when the _DBG assertion macros are compiled in
  R,       \* the nine coefficients stored in the RotationMatrix
  Rret,    \* the RotationMatrix returned last
  uq,      \* the four coefficients stored in the UnitQuaternion
  uqret,   \* the UnitQuaternion returned last
  err,     \* whether the last operation raised
  op,      \* the last operation and its argument
  nops     \* operations performed

vars == <<obj, debug, R, Rret, uq, uqret, err, op, nops>>

NoError == "none"
InvalidRepresentation == "InvalidRepresentation"

\* RotationMatrix(): Base(Base::Identity())
DefaultRotationMatrix == IdentityMatrix

\* UnitQuaternion(): Base(Implementation::Identity())
DefaultUnitQuaternion == IdentityQuaternion

Init ==
  /\ obj \in {"RotationMatrix", "UnitQuaternion"}
  /\ debug \in BOOLEAN
  /\ R = DefaultRotationMatrix
  /\ Rret = DefaultRotationMatrix
  /\ uq = DefaultUnitQuaternion
  /\ uqret = DefaultUnitQuaternion
  /\ err = NoError
  /\ op = <<"construct", <<>>>>
  /\ nops = 0

\* the bookkeeping every operation shares
Did(name, arg, e) ==
  /\ op' = <<name, arg>>
  /\ err' = e
  /\ nops' = nops + 1
  /\ UNCHANGED <<obj, debug>>

OnMatrix == obj = "RotationMatrix" /\ nops < MaxOps
OnQuaternion == obj = "UnitQuaternion" /\ nops < MaxOps

\* a checked constructor that asserts orthogonality only: not what the
\* code does
MatrixCheckRaisesNoDeterminant(M) == debug /\ ~IsOrthogonal(M)

\* the two KINDR_ASSERT_..._DBG lines of a checked constructor: they raise
\* only in a build that compiles them in
MatrixCheckRaises(M) == debug /\ ~PassesMatrixAssertions(M)

\* the body the checked constructors share: the coefficients are taken
\* unless an assertion raises, and then no object is made and the client
\* keeps the one it had
CheckedConstruct(name, arg, M, raises) ==
  /\ OnMatrix
  /\ R' = IF raises THEN R ELSE M
  /\ Did(name, arg, IF raises THEN InvalidRepresentation ELSE NoError)
  /\ UNCHANGED <<Rret, uq, uqret>>

\* RotationMatrix(r11, ..., r33)
Construct9(M) == CheckedConstruct("RotationMatrix(9 scalars)", M, M, MatrixCheckRaises(M))

\* explicit RotationMatrix(const Base& other)
ConstructBase(M) == CheckedConstruct("RotationMatrix(Base)", M, M, MatrixCheckRaises(M))

\* conversion constructor, operator= and operator() from a RotationMatrix:
\* the value returned last
AssignRotationMatrix ==
  /\ OnMatrix
  /\ R' = ConvertRotationMatrix(Rret)
  /\ Did("operator=(RotationMatrix)", Rret, NoError)
  /\ UNCHANGED <<Rret, uq, uqret>>

\* conversion constructor, operator= and operator() from a RotationVector
AssignRotationVector(rv) ==
  /\ OnMatrix
  /\ R' = ConvertRotationVector(rv)
  /\ Did("operator=(RotationVector)", rv, NoError)
  /\ UNCHANGED <<Rret, uq, uqret>>

\* conversion constructor, operator= and operator() from EulerAnglesZyx: the
\* conversion returns through the checked constructor
AssignEulerZyx(zyx) ==
  CheckedConstruct("operator=(EulerAnglesZyx)", zyx, EulerZyxMatrix(zyx),
                   MatrixCheckRaises(EulerZyxMatrix(zyx)))

DoInverted ==
  /\ OnMatrix
  /\ Rret' = Inverted(R)
  /\ Did("inverted", <<>>, NoError)
  /\ UNCHANGED <<R, uq, uqret>>

\* an invert() that inverts a temporary and leaves the object alone: not
\* what the code does
DoInvertOnCopy ==
  /\ OnMatrix
  /\ R' = R
  /\ Did("invert", R, NoError)
  /\ UNCHANGED <<Rret, uq, uqret>>

\* *this = this->inverted()
DoInvert ==
  /\ OnMatrix
  /\ R' = Inverted(R)
  /\ Did("invert", R, NoError)
  /\ UNCHANGED <<Rret, uq, uqret>>

DoTransposed ==
  /\ OnMatrix
  /\ Rret' = Transposed(R)
  /\ Did("transposed", <<>>, NoError)
  /\ UNCHANGED <<R, uq, uqret>>

\* *this = this->transposed()
DoTranspose ==
  /\ OnMatrix
  /\ R' = Transposed(R)
  /\ Did("transpose", R, NoError)
  /\ UNCHANGED <<Rret, uq, uqret>>

\* setMatrix(const Implementation&)
SetMatrix(M) ==
  /\ OnMatrix
  /\ R' = M
  /\ Did("setMatrix(Implementation)", M, NoError)
  /\ UNCHANGED <<Rret, uq, uqret>>

\* a setMatrix that runs the constructor's assertions: not what the code
\* does
SetMatrix9Checked(M) ==
  CheckedConstruct("setMatrix(9 scalars)", M, M, MatrixCheckRaises(M))

\* setMatrix(r11, ..., r33)
SetMatrix9(M) ==
  /\ OnMatrix
  /\ R' = M
  /\ Did("setMatrix(9 scalars)", M, NoError)
  /\ UNCHANGED <<Rret, uq, uqret>>

\* what Implementation::setIdentity() stores
SetIdentityValue == IdentityMatrix

SetIdentity ==
  /\ OnMatrix
  /\ R' = SetIdentityValue
  /\ Did("setIdentity", <<>>, NoError)
  /\ UNCHANGED <<Rret, uq, uqret>>

GetUnique ==
  /\ OnMatrix
  /\ Rret' = GetUniqueValue(R)
  /\ Did("getUnique", R, NoError)
  /\ UNCHANGED <<R, uq, uqret>>

SetUnique ==
  /\ OnMatrix
  /\ Did("setUnique", R, NoError)
  /\ UNCHANGED <<R, Rret, uq, uqret>>

\* R * rhs through RotationBase::operator*, which calls mult(R, rhs)
DoMult(rhs) ==
  /\ OnMatrix
  /\ Rret' = Mult(R, rhs)
  /\ Did("mult", rhs, NoError)
  /\ UNCHANGED <<R, uq, uqret>>

\* R.fix()
DoFix ==
  /\ OnMatrix
  /\ R' = Fixed(R)
  /\ Did("fix", R, NoError)
  /\ UNCHANGED <<Rret, uq, uqret>>

MatrixNext ==
  \/ \E M \in ScalarInputs : Construct9(M)
  \/ \E M \in EigenInputs : ConstructBase(M)
  \/ AssignRotationMatrix
  \/ \E rv \in RotationVectorInputs : AssignRotationVector(rv)
  \/ \E zyx \in EulerZyxInputs : AssignEulerZyx(zyx)
  \/ DoInverted
  \/ DoInvert
  \/ DoTransposed
  \/ DoTranspose
  \/ \E M \in EigenInputs : SetMatrix(M)
  \/ \E M \in ScalarInputs : SetMatrix9(M)
  \/ SetIdentity
  \/ GetUnique
  \/ SetUnique
  \/ \E rhs \in MultOperands \cup {Rret} : DoMult(rhs)
  \/ DoFix

(***************************************************************************)
(* UnitQuaternion and the Quaternion members it inherits.  The             *)
(* ASSERT_SCALAR_NEAR of this class is no _DBG macro: it is checked in     *)
(* every build.                                                            *)
(***************************************************************************)
UnitError(q) == IF PassesUnitAssertion(q) THEN NoError ELSE InvalidRepresentation

\* UnitQuaternion(w, x, y, z)
ConstructUnit4(q) ==
  /\ OnQuaternion
  /\ uq' = IF PassesUnitAssertion(q) THEN q ELSE uq
  /\ Did("UnitQuaternion(4 scalars)", q, UnitError(q))
  /\ UNCHANGED <<R, Rret, uqret>>

\* explicit UnitQuaternion(const Base& other), from a Quaternion
ConstructUnitFromQuaternion(q) ==
  /\ OnQuaternion
  /\ uq' = IF PassesUnitAssertion(q) THEN q ELSE uq
  /\ Did("UnitQuaternion(Quaternion)", q, UnitError(q))
  /\ UNCHANGED <<R, Rret, uqret>>

\* explicit UnitQuaternion(const Implementation& other), from an
\* Eigen::Quaternion
ConstructUnitFromImplementation(q) ==
  /\ OnQuaternion
  /\ uq' = IF PassesUnitAssertion(q) THEN q ELSE uq
  /\ Did("UnitQuaternion(Implementation)", q, UnitError(q))
  /\ UNCHANGED <<R, Rret, uqret>>

\* operator=(const UnitQuaternion&): four coefficient copies, no assertion
AssignUnit ==
  /\ OnQuaternion
  /\ uq' = uqret
  /\ Did("operator=(UnitQuaternion)", uqret, NoError)
  /\ UNCHANGED <<R, Rret, uqret>>

\* operator()(const UnitQuaternion&): *this = static_cast<UnitQuaternion>(quat)
CallUnit ==
  /\ OnQuaternion
  /\ uq' = uqret
  /\ Did("operator()(UnitQuaternion)", uqret, NoError)
  /\ UNCHANGED <<R, Rret, uqret>>

\* operator()(const Quaternion&): the four coefficients are written first,
\* the assertion comes after
CallQuaternion(q) ==
  /\ OnQuaternion
  /\ uq' = q
  /\ Did("operator()(Quaternion)", q, UnitError(q))
  /\ UNCHANGED <<R, Rret, uqret>>

\* a write through one of the mutable accessors w(), x(), y(), z()
WriteCoefficient(i, v) ==
  /\ OnQuaternion
  /\ uq' = [uq EXCEPT ![i] = v]
  /\ Did("write coefficient", <<i, v>>, NoError)
  /\ UNCHANGED <<R, Rret, uqret>>

\* Quaternion::normalize()
Normalize ==
  /\ OnQuaternion
  /\ uq' = QuatNormalized(uq)
  /\ Did("normalize", uq, NoError)
  /\ UNCHANGED <<R, Rret, uqret>>

\* the value UnitQuaternion::conjugate() hands to the checked constructor
UnitConjugateValue(q) == QuatConjugate(q)

\* the value UnitQuaternion::inverse() hands to the checked constructor:
\* Base::conjugate() again
UnitInverseValue(q) == QuatConjugate(q)

\* UnitQuaternion::conjugate(): UnitQuaternion(Base::conjugate()), through
\* the checked constructor
Conjugate ==
  /\ OnQuaternion
  /\ uqret' = IF PassesUnitAssertion(UnitConjugateValue(uq)) THEN UnitConjugateValue(uq) ELSE uqret
  /\ Did("conjugate", <<>>, UnitError(UnitConjugateValue(uq)))
  /\ UNCHANGED <<R, Rret, uq>>

\* UnitQuaternion::inverse(): UnitQuaternion(Base::conjugate())
Inverse ==
  /\ OnQuaternion
  /\ uqret' = IF PassesUnitAssertion(UnitInverseValue(uq)) THEN UnitInverseValue(uq) ELSE uqret
  /\ Did("inverse", <<>>, UnitError(UnitInverseValue(uq)))
  /\ UNCHANGED <<R, Rret, uq>>

\* Quaternion::toUnitQuaternion() of a Quaternion q:
\* UnitQuaternion(normalized()), through the checked constructor
ToUnitQuaternion(q) ==
  /\ OnQuaternion
  /\ uqret' = IF PassesUnitAssertion(QuatNormalized(q)) THEN QuatNormalized(q) ELSE uqret
  /\ Did("toUnitQuaternion", q, UnitError(QuatNormalized(q)))
  /\ UNCHANGED <<R, Rret, uq>>

QuaternionNext ==
  \/ \E q \in QuaternionInputs : ConstructUnit4(q)
  \/ \E q \in QuaternionInputs : ConstructUnitFromQuaternion(q)
  \/ \E q \in QuaternionInputs : ConstructUnitFromImplementation(q)
  \/ AssignUnit
  \/ CallUnit
  \/ \E q \in QuaternionInputs : CallQuaternion(q)
  \/ \E i \in 1..4, v \in WriteValues : WriteCoefficient(i, v)
  \/ Normalize
  \/ Conjugate
  \/ Inverse
  \/ \E q \in QuaternionInputs : ToUnitQuaternion(q)

Next == MatrixNext \/ QuaternionNext

Spec == Init /\ [][Next]_vars

(***************************************************************************)
(* Properties.                                                             *)
(***************************************************************************)
IsMatrixObject == obj = "RotationMatrix"
IsQuaternionObject == obj = "UnitQuaternion"

\* coefficient-wise ==, as the scalar type compares
SameCoefficients(A, B) == \A i \in DOMAIN A : FEq(A[i], B[i])
IsFiniteMatrix(M) == \A i \in 1..9 : IsFinite(M[i])
LastOp == op[1]
LastArg == op[2]

\* the RotationMatrix values the client holds
HeldMatrices == {R, Rret}

\* C1 as stated: for every valid rotation matrix x, mult(x, x.inverted()) and
\* mult(x.inverted(), x) both equal the identity matrix, and for every unit
\* quaternion q, q * q.inverse() and q.inverse() * q both equal (1,0,0,0).
C1_InverseLawExact ==
  /\ IsMatrixObject =>
       \A x \in HeldMatrices :
         PassesMatrixAssertions(x) =>
           /\ SameCoefficients(Mult(x, Inverted(x)), IdentityMatrix)
           /\ SameCoefficients(Mult(Inverted(x), x), IdentityMatrix)
  /\ (IsQuaternionObject /\ PassesUnitAssertion(uq)) =>
       /\ IsEqual(QuatMult(uq, UnitInverseValue(uq)), IdentityQuaternion)
       /\ IsEqual(QuatMult(UnitInverseValue(uq), uq), IdentityQuaternion)

\* the vector part of a quaternion is exactly zero
HasZeroVectorPart(q) == IsZero(q[2]) /\ IsZero(q[3]) /\ IsZero(q[4])

\* C1 (amended): for every rotation matrix x that passes the validity check,
\* every entry of mult(x, x.inverted()) is within 1e-4 and every entry of
\* mult(x.inverted(), x) within 4e-4 of the identity's; for every unit
\* quaternion q that passes the unit-norm check, q * q.inverse() and
\* q.inverse() * q have a vector part of exactly zero and a scalar part
\* within 3e-6 of 1.
C1_InverseLawWithinTolerance ==
  /\ IsMatrixObject =>
       \A x \in HeldMatrices :
         PassesMatrixAssertions(x) =>
           /\ MatrixNear(Mult(x, Inverted(x)), IdentityMatrix, MatrixTolerance)
           /\ MatrixNear(Mult(Inverted(x), x), IdentityMatrix, Dec(4, 10000))
  /\ (IsQuaternionObject /\ PassesUnitAssertion(uq)) =>
       /\ HasZeroVectorPart(QuatMult(uq, UnitInverseValue(uq)))
       /\ HasZeroVectorPart(QuatMult(UnitInverseValue(uq), uq))
       /\ ScalarNear(QuatMult(uq, UnitInverseValue(uq))[1], One, Dec(3, 1000000))
       /\ ScalarNear(QuatMult(UnitInverseValue(uq), uq)[1], One, Dec(3, 1000000))

\* C1 witness: a matrix the checked constructor accepted, its inverse
\* returned by inverted(), and a product with it that is not the identity
C1_Witness ==
  /\ IsMatrixObject /\ debug
  /\ LastOp = "inverted"
  /\ PassesMatrixAssertions(R)
  /\ Rret = Inverted(R)
  /\ R # IdentityMatrix
  /\ ~SameCoefficients(Mult(R, Rret), IdentityMatrix)

\* C2: for every rotation matrix x (with finite coefficients),
\* mult(x, I) == x and mult(I, x) == x, where I is what the default
\* constructor and setIdentity() produce.
C2_CompositionIdentity ==
  IsMatrixObject =>
    /\ nops = 0 => R = IdentityMatrix
    /\ LastOp = "setIdentity" => R = IdentityMatrix
    /\ \A x \in HeldMatrices :
         IsFiniteMatrix(x) =>
           /\ SameCoefficients(Mult(x, DefaultRotationMatrix), x)
           /\ SameCoefficients(Mult(DefaultRotationMatrix, x), x)
           /\ SameCoefficients(Mult(x, SetIdentityValue), x)
           /\ SameCoefficients(Mult(SetIdentityValue, x), x)

\* C2 witness: a rotation other than the identity composed with the
\* identity, and the product is that rotation
C2_Witness ==
  /\ IsMatrixObject
  /\ LastOp = "mult"
  /\ LastArg = DefaultRotationMatrix
  /\ R # IdentityMatrix
  /\ PassesMatrixAssertions(R)
  /\ Rret = R

\* C3 as stated, for a build with the assertions compiled in: after any
\* sequence of public operations the stored coefficients are orthogonal and
\* have determinant +1, both within 1e-4.
C3_MatrixInvariant ==
  (IsMatrixObject /\ debug) => PassesMatrixAssertions(R)

\* C4 as stated: after any public operation on a UnitQuaternion that
\* completes without raising, the norm of its coefficients is 1 within 1e-6.
C4_UnitNormInvariant ==
  (IsQuaternionObject /\ err = NoError) => PassesUnitAssertion(uq)

\* the validity-checked constructors
MatrixConstructorNames == {"RotationMatrix(9 scalars)", "RotationMatrix(Base)"}
UnitConstructorNames ==
  {"UnitQuaternion(4 scalars)", "UnitQuaternion(Quaternion)", "UnitQuaternion(Implementation)"}
CheckedConstructorNames == MatrixConstructorNames \cup UnitConstructorNames
Raised == err = InvalidRepresentation

C6_CheckedConstructors ==
  /\ (IsMatrixObject /\ debug /\ LastOp \in MatrixConstructorNames) =>
       /\ Raised <=> ~(IsOrthogonal(LastArg) /\ HasUnitDeterminant(LastArg))
       /\ LastArg \in {Reflection, ScaledRotation} => Raised
       /\ LastArg \in {RotZ90, RotX345} => ~Raised
       /\ ~Raised => R = LastArg
  /\ (IsQuaternionObject /\ LastOp \in UnitConstructorNames) =>
       /\ Raised <=> ~ScalarNear(QuatNorm(LastArg), One, QuaternionTolerance)
       /\ ~Raised => uq = LastArg

\* C6 witness: the nine-scalar constructor has rejected the reflection
\* diag(1, 1, -1), which is orthogonal and has determinant -1
C6_Witness ==
  /\ IsMatrixObject /\ debug
  /\ LastOp = "RotationMatrix(9 scalars)"
  /\ LastArg = Reflection
  /\ IsOrthogonal(LastArg)
  /\ Raised

\* C7 as stated: after fix() the stored matrix is orthogonal with
\* determinant +1 within tolerance, whatever 3x3 coefficients it held.
C7_FixReprojects ==
  (IsMatrixObject /\ LastOp = "fix") => PassesMatrixAssertions(R)

C9_RotationVectorBranches ==
  (IsMatrixObject /\ LastOp = "operator=(RotationVector)") =>
    /\ FLt(VecNorm(LastArg), DummyPrecision) =>
         R = Mat(One, FNeg(LastArg[3]), LastArg[2],
                 LastArg[3], One, FNeg(LastArg[1]),
                 FNeg(LastArg[2]), LastArg[1], One)
    /\ ~FLt(VecNorm(LastArg), DummyPrecision) =>
         /\ R = ClosedFormMatrix(LastArg)
         /\ ~IsZero(FMul(VecNorm(LastArg), VecNorm(LastArg)))
         /\ IsFiniteMatrix(R)
         /\ PassesMatrixAssertions(R)
    /\ LastArg = <<Zero, Zero, Zero>> => R = IdentityMatrix
    /\ ~Raised

\* C9 witness: a vector whose norm equals the threshold has gone through the
\* closed form
C9_Witness ==
  /\ IsMatrixObject
  /\ LastOp = "operator=(RotationVector)"
  /\ FEq(VecNorm(LastArg), DummyPrecision)
  /\ R = ClosedFormMatrix(LastArg)
  /\ IsFiniteMatrix(R)

\* entry (r, c) of A is entry (c, r) of B, for all nine
IsTransposeOf(A, B) == \A r \in 0..2, c \in 0..2 : At(A, r, c) = At(B, c, r)

\* C10: inverted() and transposed() return the same matrix, the transpose;
\* invert() and transpose() put it in place of the stored one; doing either
\* twice restores the nine coefficients.
C10_InverseIsTranspose ==
  IsMatrixObject =>
    /\ Inverted(R) = Transposed(R)
    /\ IsTransposeOf(Inverted(R), R)
    /\ LastOp \in {"inverted", "transposed"} => IsTransposeOf(Rret, R)
    /\ LastOp \in {"invert", "transpose"} => IsTransposeOf(R, LastArg)
    /\ Inverted(Inverted(R)) = R
    /\ Transposed(Transposed(R)) = R
    /\ LastOp = "invert" => Inverted(R) = LastArg
    /\ LastOp = "transpose" => Transposed(R) = LastArg

\* C10 witness: invert() has replaced a matrix that is not symmetric by its
\* transpose, and a second invert() would restore it
C10_Witness ==
  /\ IsMatrixObject
  /\ LastOp = "invert"
  /\ R # LastArg
  /\ IsTransposeOf(R, LastArg)
  /\ Inverted(R) = LastArg

\* P is the matrix product A.B: entry (r, c) is row r of A times column c
\* of B, summed in index order
IsProductOf(P, A, B) ==
  \A r \in 0..2, c \in 0..2 :
    At(P, r, c) = FAdd(FAdd(FMul(At(A, r, 0), At(B, 0, c)),
                            FMul(At(A, r, 1), At(B, 1, c))),
                       FMul(At(A, r, 2), At(B, 2, c)))

\* C11 as stated: the composition of a (left) with b (right) is the product
\* a.b, the order is significant, and mult(mult(a,b),c) == mult(a,mult(b,c)).
C11_CompositionExact ==
  (IsMatrixObject /\ LastOp = "mult" /\ PassesMatrixAssertions(R)
     /\ PassesMatrixAssertions(LastArg)) =>
    /\ IsProductOf(Rret, R, LastArg)
    /\ \A c \in MultOperands :
         SameCoefficients(Mult(Rret, c), Mult(R, Mult(LastArg, c)))

\* C11 (amended): the composition of a (left) with b (right) is the product
\* a.b, the order is significant (the quarter turn about z and the rotation
\* about x do not commute), and for matrices that pass the validity check
\* mult(mult(a,b),c) and mult(a,mult(b,c)) agree within 1e-6 in every entry.
C11_CompositionOrder ==
  (IsMatrixObject /\ LastOp = "mult") =>
    /\ IsProductOf(Rret, R, LastArg)
    /\ (R = RotX345 /\ LastArg = RotZ90) =>
         ~SameCoefficients(Rret, Mult(LastArg, R))
    /\ (PassesMatrixAssertions(R) /\ PassesMatrixAssertions(LastArg)) =>
         \A c \in MultOperands :
           MatrixNear(Mult(Rret, c), Mult(R, Mult(LastArg, c)), Dec(1, 1000000))

\* C11 witness: the rotation about x composed with the quarter turn about z,
\* and the product taken the other way round differs
C11_Witness ==
  /\ IsMatrixObject
  /\ LastOp = "mult"
  /\ R = RotX345
  /\ LastArg = RotZ90
  /\ IsProductOf(Rret, R, LastArg)
  /\ Rret # Mult(LastArg, R)

\* C12: getUnique() returns a copy with exactly the receiver's coefficients
\* and leaves the receiver unchanged, setUnique() leaves all nine
\* coefficients unchanged, and getUnique(getUnique(x)) == getUnique(x) == x.
C12_UniqueIsIdentity ==
  IsMatrixObject =>
    /\ LastOp = "getUnique" => (Rret = LastArg /\ R = LastArg)
    /\ LastOp = "setUnique" => R = LastArg
    /\ GetUniqueValue(GetUniqueValue(R)) = GetUniqueValue(R)
    /\ GetUniqueValue(R) = R
    /\ IsFiniteMatrix(R) =>
         /\ SameCoefficients(GetUniqueValue(GetUniqueValue(R)), GetUniqueValue(R))
         /\ SameCoefficients(GetUniqueValue(R), R)

\* C12 witness: getUnique() on a matrix other than the identity has
\* returned that matrix and left it in place
C12_Witness ==
  /\ IsMatrixObject
  /\ LastOp = "getUnique"
  /\ LastArg # IdentityMatrix
  /\ Rret = LastArg
  /\ R = LastArg

\* the active elementary rotations by the angle a about x, y and z
ElementaryX(a) == Mat(One, Zero, Zero, Zero, FCos(a), FNeg(FSin(a)), Zero, FSin(a), FCos(a))
ElementaryY(a) == Mat(FCos(a), Zero, FSin(a), Zero, One, Zero, FNeg(FSin(a)), Zero, FCos(a))
ElementaryZ(a) == Mat(FCos(a), FNeg(FSin(a)), Zero, FSin(a), FCos(a), Zero, Zero, Zero, One)

\* C13: the matrix converted from EulerAnglesZyx (x(), y(), z()) is the
\* product Rx(x()).Ry(y()).Rz(z()) of active elementary rotations:
\* coefficient for coefficient when the product is taken as Rx.(Ry.Rz),
\* within 1e-6 when taken as (Rx.Ry).Rz, with entry (0,2) = sin(y()) and
\* entry (0,1) = -cos(y()).sin(z()).
C13_EulerZyxSequence ==
  (IsMatrixObject /\ LastOp = "operator=(EulerAnglesZyx)" /\ ~Raised) =>
    /\ R = MatProduct(ElementaryX(LastArg[1]),
                      MatProduct(ElementaryY(LastArg[2]), ElementaryZ(LastArg[3])))
    /\ MatrixNear(R,
                  MatProduct(MatProduct(ElementaryX(LastArg[1]), ElementaryY(LastArg[2])),
                             ElementaryZ(LastArg[3])),
                  Dec(1, 1000000))
    /\ At(R, 0, 2) = FSin(LastArg[2])
    /\ At(R, 0, 1) = FNeg(FMul(FCos(LastArg[2]), FSin(LastArg[3])))

\* C13 witness: three nonzero angles converted, and the sine of the negative
\* y angle stands at (0,2) while its negation stands at (2,0) of Ry
C13_Witness ==
  /\ IsMatrixObject
  /\ LastOp = "operator=(EulerAnglesZyx)"
  /\ ~Raised
  /\ LastArg = <<Dec(3, 10), FNeg(Dec(4, 10)), Dec(12, 10)>>
  /\ FLt(At(R, 0, 2), Zero)
  /\ FLt(At(R, 0, 1), Zero)
  /\ R # MatTranspose(R)

\* Quaternion(w, x, y, z) takes any four scalars unchecked: the operands a
\* client passes to operator==, one with a NaN coefficient among them
ComparisonInputs == QuaternionInputs \cup {Quat(NaN, Zero, Zero, Zero)}

\* the quaternions at hand to compare: the object, the value returned last
\* and the values a client passes in
ComparedQuaternions == {uq, uqret} \cup ComparisonInputs
QuatNegated(q) == [i \in 1..4 |-> FNeg(q[i])]
HasNaNCoefficient(q) == \E i \in 1..4 : IsNaN(q[i])
HasNonzeroCoefficient(q) == \E i \in 1..4 : ~IsZero(q[i])

\* a == b exactly when the four coefficients compare equal, with no
\* tolerance and no canonicalization; symmetric; q == -q false
IsExactComparison(a, b) ==
  /\ IsEqual(a, b) <=> \A i \in 1..4 : FEq(a[i], b[i])
  /\ IsEqual(a, b) => a = b
  /\ IsEqual(a, b) <=> IsEqual(b, a)
  /\ HasNonzeroCoefficient(a) => ~IsEqual(a, QuatNegated(a))

\* C14 as stated: operator== is exact coefficient-wise equality, reflexive
\* and symmetric, and q == -q is false for q with a nonzero coefficient.
C14_EqualityExactReflexive ==
  IsQuaternionObject =>
    \A a \in ComparedQuaternions :
      /\ IsEqual(a, a)
      /\ \A b \in ComparedQuaternions : IsExactComparison(a, b)

\* C14 (amended): operator== is exact coefficient-wise equality and
\* symmetric, q == -q is false for q with a nonzero coefficient, and q == q
\* is true exactly for the quaternions q none of whose coefficients is NaN.
C14_EqualityExact ==
  IsQuaternionObject =>
    \A a \in ComparedQuaternions :
      /\ IsEqual(a, a) <=> ~HasNaNCoefficient(a)
      /\ \A b \in ComparedQuaternions : IsExactComparison(a, b)

\* C14 witness: normalize() of the zero quaternion has left NaN
\* coefficients, and the object does not compare equal to itself
C14_Witness ==
  /\ IsQuaternionObject
  /\ LastOp = "normalize"
  /\ LastArg = ZeroQuaternion
  /\ HasNaNCoefficient(uq)
  /\ ~IsEqual(uq, uq)
  /\ ~IsEqual(uqret, QuatNegated(uqret))

\* orthogonal with determinant +1, both within tol
IsRotationWithin(M, tol) ==
  /\ MatrixNear(MatProduct(M, MatTranspose(M)), IdentityMatrix, tol)
  /\ ScalarNear(Determinant(M), One, tol)

\* C15 as stated: from the default identity and from matrices the checked
\* constructor accepts, composition, inversion, transposition, setIdentity,
\* getUnique/setUnique and same-type conversion produce only matrices that
\* are orthogonal with determinant +1 (within the 1e-4 of the check).
C15_ClosureWithinTolerance ==
  IsMatrixObject =>
    /\ nops = 0 => PassesMatrixAssertions(R)
    /\ LastOp = "setIdentity" => PassesMatrixAssertions(R)
    /\ (LastOp \in {"inverted", "transposed", "getUnique"} /\ PassesMatrixAssertions(R)) =>
         PassesMatrixAssertions(Rret)
    /\ (LastOp \in {"invert", "transpose", "setUnique", "operator=(RotationMatrix)"}
          /\ PassesMatrixAssertions(LastArg)) =>
         PassesMatrixAssertions(R)
    /\ (LastOp = "mult" /\ PassesMatrixAssertions(R) /\ PassesMatrixAssertions(LastArg)) =>
         PassesMatrixAssertions(Rret)

\* C15 (amended): the default identity and setIdentity() are exactly
\* orthogonal with determinant 1; getUnique, setUnique and same-type
\* conversion keep the coefficients, so a matrix that passes the validity
\* check still passes it; the transpose (inverse) of a matrix that passes
\* the check is orthogonal with determinant +1 within 4e-4, and the
\* composition of two matrices that pass it within 5e-4: not necessarily
\* within the 1e-4 of the check, so the deviation can grow along a sequence
\* of compositions.
C15_ClosureWithDrift ==
  IsMatrixObject =>
    /\ nops = 0 => R = IdentityMatrix
    /\ LastOp = "setIdentity" => R = IdentityMatrix
    /\ LastOp = "getUnique" => Rret = R
    /\ LastOp \in {"setUnique", "operator=(RotationMatrix)"} => R = LastArg
    /\ (LastOp \in {"inverted", "transposed"} /\ PassesMatrixAssertions(R)) =>
         IsRotationWithin(Rret, Dec(4, 10000))
    /\ (LastOp \in {"invert", "transpose"} /\ PassesMatrixAssertions(LastArg)) =>
         IsRotationWithin(R, Dec(4, 10000))
    /\ (LastOp = "mult" /\ PassesMatrixAssertions(R) /\ PassesMatrixAssertions(LastArg)) =>
         IsRotationWithin(Rret, Dec(5, 10000))

\* C15 witness: two matrices the checked constructor accepts, composed, and
\* the product does not pass the check although it is within 5e-4
C15_Witness ==
  /\ IsMatrixObject /\ debug
  /\ LastOp = "mult"
  /\ PassesMatrixAssertions(R)
  /\ PassesMatrixAssertions(LastArg)
  /\ ~PassesMatrixAssertions(Rret)
  /\ IsRotationWithin(Rret, Dec(5, 10000))

\* C16 as stated: a step of UnitQuaternion::operator()(const Quaternion&)
\* that raises leaves the receiver with the coefficients it had before.
C16_StateUnchangedOnError ==
  [][(op'[1] = "operator()(Quaternion)" /\ err' = InvalidRepresentation) => uq' = uq]_vars

====
